---- MODULE Spec2Model ----
(***************************************************************************)
(* Model of the Front API client (src/src/front-client.ts) and of the      *)
(* getConversations tool handler (build/index.js, kept as                  *)
(* src/unnamed/part_000).                                                  *)
(*                                                                         *)
(* One behaviour is one invocation: either the tool is invoked with an     *)
(* argument set, or a caller constructs a FrontClient and calls            *)
(* listInboxMessages / listInboxConversations with a filter object.  An    *)
(* action is the code that runs between two awaits: JavaScript runs each   *)
(* such piece to completion, so the synchronous prefix of a call (up to    *)
(* the first fetch) and each promise continuation are atomic.              *)
(*                                                                         *)
(* JavaScript objects are functions from the names of the properties that  *)
(* are present to their values; an absent property is absent from DOMAIN.  *)
(***************************************************************************)
EXTENDS Integers, Sequences, FiniteSets, TLC

VARIABLES
  env,                   \* process.env
  pc,                    \* where the invocation stands
  entry,                 \* the operation invoked
  args,                  \* the arguments the tool was invoked with
  client,                \* the FrontClient: token and baseUrl
  params,                \* the filter object the caller passed, as it is now
  params0,               \* the filter object as the caller passed it
  requests,              \* the HTTP exchanges started, in order
  responses,             \* per exchange: its response, none yet, or never
  reordered,             \* a message list arrived before one of a lower index
  conversationsPromise,  \* the promise of listInboxConversations
  conversationsResponse, \* the awaited conversation envelope
  messagesPromises,      \* the promises of listConversationMessages, by index
  promise,               \* the promise the client operation returned
  toolPromise            \* the promise of the tool handler

vars == <<env, pc, entry, args, client, params, params0, requests, responses,
          reordered, conversationsPromise, conversationsResponse,
          messagesPromises, promise, toolPromise>>

(***************************************************************************)
(* Bounds of the model.                                                    *)
(***************************************************************************)
\* most conversations in the page the conversation-list call returns
MaxPage == 2
\* most messages in one message-list response
MaxMsgs == 1

(***************************************************************************)
(* Program constants.                                                      *)
(***************************************************************************)
MinLimit == 1
MaxLimit == 100
DefaultLimit == 10
DefaultBaseUrl == "https://api2.frontapp.com"
Statuses == {"open", "archived", "deleted", "spam"}

(***************************************************************************)
(* JavaScript objects.                                                     *)
(***************************************************************************)
EmptyObj == [k \in {} |-> 0]
Has(o, k) == k \in DOMAIN o
Put(o, k, v) == [x \in (DOMAIN o) \cup {k} |-> IF x = k THEN v ELSE o[x]]
\* an optional value is <<>> (absent) or <<v>>
Opt(S) == {<<>>} \cup {<<v>> : v \in S}
Prop(k, o) == IF o = <<>> THEN EmptyObj ELSE [x \in {k} |-> o[1]]
\* truthiness of an optional string, number and boolean property
TruthyStr(o, k) == Has(o, k) /\ o[k] # ""
TruthyNum(o, k) == Has(o, k) /\ o[k] # 0
TruthyBool(o, k) == Has(o, k) /\ o[k] = TRUE

Contains(s, sub) ==
  \E i \in 1..(Len(s) - Len(sub) + 1) : SubSeq(s, i, i + Len(sub) - 1) = sub

(***************************************************************************)
(* FrontClient.constructor                                                 *)
(***************************************************************************)
\* variant: falls back to a placeholder token
ResolveTokenPlaceholder(options, e) ==
  IF TruthyStr(options, "token") THEN options.token
  ELSE IF TruthyStr(e, "FRONT_API_TOKEN") THEN e.FRONT_API_TOKEN
  ELSE "anonymous"

\* options.token || process.env.FRONT_API_TOKEN || ''
ResolveToken(options, e) ==
  IF TruthyStr(options, "token") THEN options.token
  ELSE IF TruthyStr(e, "FRONT_API_TOKEN") THEN e.FRONT_API_TOKEN
  ELSE ""

TokenMissingError ==
  "Front API token not provided and not found in environment variable: FRONT_API_TOKEN"

\* the constructed client, or the error the constructor throws
NewFrontClient(options, e) ==
  IF ResolveToken(options, e) = ""
  THEN [error |-> TokenMissingError]
  ELSE [token   |-> ResolveToken(options, e),
        baseUrl |-> IF TruthyStr(options, "baseUrl") THEN options.baseUrl
                    ELSE DefaultBaseUrl]

(***************************************************************************)
(* URLSearchParams: a sequence of <<name, value>> pairs.                   *)
(***************************************************************************)
QAppend(qp, name, value) == Append(qp, <<name, value>>)

RECURSIVE QDropName(_, _)
QDropName(qp, name) ==
  IF qp = <<>> THEN <<>>
  ELSE IF Head(qp)[1] = name THEN QDropName(Tail(qp), name)
       ELSE <<Head(qp)>> \o QDropName(Tail(qp), name)

\* set(): the first pair of that name takes the value, the others of that
\* name are removed; appended when there is none
RECURSIVE QSet(_, _, _)
QSet(qp, name, value) ==
  IF qp = <<>> THEN <<<<name, value>>>>
  ELSE IF Head(qp)[1] = name
       THEN <<<<name, value>>>> \o QDropName(Tail(qp), name)
       ELSE <<Head(qp)>> \o QSet(Tail(qp), name, value)

\* application/x-www-form-urlencoded serialisation of one character
EncodeChar(c) ==
  CASE c = " "  -> "+"
    [] c = ":"  -> "%3A"
    [] c = "\"" -> "%22"
    [] OTHER    -> c

RECURSIVE UrlEncode(_)
UrlEncode(s) ==
  IF Len(s) = 0 THEN ""
  ELSE EncodeChar(SubSeq(s, 1, 1)) \o UrlEncode(SubSeq(s, 2, Len(s)))

\* URLSearchParams.toString()
RECURSIVE QToString(_)
QToString(qp) ==
  IF qp = <<>> THEN ""
  ELSE UrlEncode(Head(qp)[1]) \o "=" \o UrlEncode(Head(qp)[2])
       \o (IF Len(qp) > 1 THEN "&" \o QToString(Tail(qp)) ELSE "")

(***************************************************************************)
(* FrontClient.listInboxConversations: the query parameters and the path.  *)
(***************************************************************************)
StatusQuery(status) == "status:\"" \o status \o "\""

BasicParams(p) ==
  LET q1 == IF TruthyStr(p, "q") THEN QAppend(<<>>, "q", p.q) ELSE <<>>
      q2 == IF TruthyStr(p, "page_token")
            THEN QAppend(q1, "page_token", p.page_token) ELSE q1
      q3 == IF TruthyNum(p, "limit")
            THEN QAppend(q2, "limit", ToString(p.limit)) ELSE q2
      q4 == IF TruthyStr(p, "start") THEN QAppend(q3, "start", p.start) ELSE q3
      q5 == IF TruthyStr(p, "end") THEN QAppend(q4, "end", p.end) ELSE q4
  IN q5

\* variant: the status fragment is appended as a second q parameter
StatusParamsAppends(p, qp) ==
  IF TruthyStr(p, "status")
  THEN QAppend(qp, "q", StatusQuery(p.status))
  ELSE qp

StatusParams(p, qp) ==
  IF TruthyStr(p, "status")
  THEN IF TruthyStr(p, "q")
       THEN QSet(qp, "q", p.q \o " AND " \o StatusQuery(p.status))
       ELSE QAppend(qp, "q", StatusQuery(p.status))
  ELSE qp

BuildQueryParams(p) == StatusParams(p, BasicParams(p))

ConversationsPath(inboxId, p) ==
  LET queryString == QToString(BuildQueryParams(p))
  IN "/inboxes/" \o inboxId \o "/conversations"
     \o (IF queryString # "" THEN "?" \o queryString ELSE "")

MessagesPath(conversationId) ==
  "/conversations/" \o conversationId \o "/messages"

\* the HTTP exchange request() starts with fetch(url, options); query is
\* the URLSearchParams the path was built from (<<>> for a message list)
HttpRequest(c, kind, path, qp) ==
  [kind          |-> kind,
   method        |-> "GET",
   url           |-> c.baseUrl \o path,
   path          |-> path,
   query         |-> qp,
   Authorization |-> "Bearer " \o c.token]

(***************************************************************************)
(* FrontClient.request: what the promise settles to for a response.        *)
(***************************************************************************)
\* JSON.stringify of an object of string properties, a sequence of
\* <<key, value>> pairs
RECURSIVE StringifyProps(_)
StringifyProps(o) ==
  IF o = <<>> THEN ""
  ELSE "\"" \o Head(o)[1] \o "\":\"" \o Head(o)[2] \o "\""
       \o (IF Len(o) > 1 THEN "," \o StringifyProps(Tail(o)) ELSE "")

JSONStringify(o) == "{" \o StringifyProps(o) \o "}"

ResponseOk(resp) == resp.status \in 200..299

\* the error response.json() rejects with when the body is not JSON
InvalidJsonError == "invalid json response body"

\* response.json().catch(() => ({}))
ErrorBody(resp) == IF resp.parseable THEN resp.json ELSE <<>>

\* variant: the status text is left out
ErrorDescriptionNoText(resp) ==
  "Front API request failed: " \o ToString(resp.status)
  \o " - " \o JSONStringify(ErrorBody(resp))

ErrorDescription(resp) ==
  "Front API request failed: " \o ToString(resp.status) \o " "
  \o resp.statusText \o " - " \o JSONStringify(ErrorBody(resp))

Fulfilled(v) == [state |-> "fulfilled", value |-> v]
Rejected(e) == [state |-> "rejected", error |-> e]
Pending == [state |-> "pending"]

RequestSettle(resp) ==
  IF resp.kind = "network" THEN Rejected(resp.error)
  ELSE IF ~ResponseOk(resp) THEN Rejected(ErrorDescription(resp))
  ELSE IF resp.parseable THEN Fulfilled(resp.json)
  ELSE Rejected(InvalidJsonError)

(***************************************************************************)
(* FrontClient.listInboxMessages: the pieces between its awaits.           *)
(***************************************************************************)
\* variant: a status the caller supplied is kept
ForceOpenKeepsSupplied(p) ==
  IF TruthyBool(p, "onlyUnresolved") /\ ~Has(p, "status")
  THEN Put(p, "status", "open") ELSE p

\* variant: the flag is also rewritten as a boolean
ForceOpenRewritesFlag(p) ==
  Put(IF TruthyBool(p, "onlyUnresolved") THEN Put(p, "status", "open") ELSE p,
      "onlyUnresolved", TruthyBool(p, "onlyUnresolved"))

\* if (params.onlyUnresolved) params.status = 'open'
ForceOpen(p) ==
  IF TruthyBool(p, "onlyUnresolved") THEN Put(p, "status", "open") ELSE p

ConversationsRequest(c, inboxId, p) ==
  HttpRequest(c, "conversations", ConversationsPath(inboxId, p),
              BuildQueryParams(p))

\* variant: the last conversation of the page is left out
MessagesRequestsButLast(c, results) ==
  [i \in 1..(Len(results) - 1) |->
     HttpRequest(c, "messages", MessagesPath(results[i].id), <<>>)]

\* conversationsResponse._results.map(c => this.listConversationMessages(c.id))
MessagesRequests(c, results) ==
  [i \in 1..Len(results) |->
     HttpRequest(c, "messages", MessagesPath(results[i].id), <<>>)]

\* variant: waits for every promise to settle and keeps what was fulfilled
PromiseAllSettled(ps, i) ==
  IF \A j \in 1..Len(ps) : ps[j].state # "pending"
  THEN Fulfilled([j \in 1..Len(ps) |->
                    IF ps[j].state = "fulfilled" THEN ps[j].value
                    ELSE [_results |-> <<>>]])
  ELSE Pending

\* variant: does not wait for the promises that are still pending
PromiseAllEager(ps, i) ==
  IF ps[i].state = "rejected" THEN Rejected(ps[i].error)
  ELSE Fulfilled([j \in 1..Len(ps) |->
                    IF ps[j].state = "fulfilled" THEN ps[j].value
                    ELSE [_results |-> <<>>]])

\* Promise.all after the promise at index i has settled: rejected with
\* that promise's error, fulfilled with the values by index once every
\* promise is fulfilled, pending otherwise
PromiseAll(ps, i) ==
  IF ps[i].state = "rejected" THEN Rejected(ps[i].error)
  ELSE IF \A j \in 1..Len(ps) : ps[j].state = "fulfilled"
       THEN Fulfilled([j \in 1..Len(ps) |-> ps[j].value])
       ELSE Pending

\* variant: concatenates from the last response to the first
RECURSIVE FlatMapResultsBackwards(_)
FlatMapResultsBackwards(messagesResponses) ==
  IF messagesResponses = <<>> THEN <<>>
  ELSE FlatMapResultsBackwards(Tail(messagesResponses))
       \o Head(messagesResponses)._results

\* messagesResponses.flatMap(response => response._results)
RECURSIVE FlatMapResults(_)
FlatMapResults(messagesResponses) ==
  IF messagesResponses = <<>> THEN <<>>
  ELSE Head(messagesResponses)._results
       \o FlatMapResults(Tail(messagesResponses))

InboxMessagesResult(results, messagesResponses) ==
  [conversations |-> results, messages |-> FlatMapResults(messagesResponses)]

\* the continuation of listInboxMessages after await Promise.all
AfterJoin(results, all) ==
  IF all.state = "fulfilled"
  THEN Fulfilled(InboxMessagesResult(results, all.value))
  ELSE all

(***************************************************************************)
(* The getConversations tool: schema and handler.                          *)
(***************************************************************************)
InvalidArgumentsError == "Invalid arguments for tool getConversations"
EnvTokenRequiredError == "FRONT_API_TOKEN environment variable is required"
InboxRequiredError ==
  "inboxId parameter or DEFAULT_INBOX_ID environment variable is required"

\* variant: no upper bound
LimitInRangeNoMax(l) == l >= MinLimit

\* z.number().min(1).max(100)
LimitInRange(l) == l >= MinLimit /\ l <= MaxLimit

\* the schema accepts the arguments
SchemaAccepts(a) ==
  /\ Has(a, "limit") => LimitInRange(a.limit)
  /\ Has(a, "status") => a.status \in Statuses

\* the arguments the handler receives: defaults applied
SchemaParse(a) ==
  LET a1 == IF Has(a, "limit") THEN a ELSE Put(a, "limit", DefaultLimit)
  IN IF Has(a1, "onlyUnresolved") THEN a1
     ELSE Put(a1, "onlyUnresolved", FALSE)

\* the error the handler throws before it creates the client, "" if none
HandlerConfigError(a, e) ==
  IF ~TruthyStr(e, "FRONT_API_TOKEN") THEN EnvTokenRequiredError
  ELSE IF ~TruthyStr(a, "inboxId") /\ ~TruthyStr(e, "DEFAULT_INBOX_ID")
       THEN InboxRequiredError
       ELSE ""

ResolvedInboxId(a, e) ==
  IF TruthyStr(a, "inboxId") THEN a.inboxId ELSE e.DEFAULT_INBOX_ID

\* const params = { limit }; if (query) ...; if (onlyUnresolved) ... else if (status) ...
HandlerParams(a) ==
  LET p1 == Put(EmptyObj, "limit", a.limit)
      p2 == IF TruthyStr(a, "query") THEN Put(p1, "q", a.query) ELSE p1
  IN IF TruthyBool(a, "onlyUnresolved") THEN Put(p2, "onlyUnresolved", TRUE)
     ELSE IF TruthyStr(a, "status") THEN Put(p2, "status", a.status)
     ELSE p2

\* the text content the handler returns for a result
ToolContent(result) ==
  [conversations |-> Len(result.conversations),
   messages |-> [j \in 1..Len(result.messages) |->
                   [id |-> result.messages[j].id]]]

\* the handler's promise for the promise of listInboxMessages
HandlerSettle(pr) ==
  CASE pr.state = "fulfilled" -> Fulfilled(ToolContent(pr.value))
    [] pr.state = "rejected"  -> Rejected("Front API error: " \o pr.error)
    [] OTHER                  -> pr

(***************************************************************************)
(* The environment: inputs and responses.                                  *)
(***************************************************************************)
EnvSet ==
  {Prop("FRONT_API_TOKEN", t) @@ Prop("DEFAULT_INBOX_ID", d) :
     t \in Opt({"tok_env"}), d \in Opt({"inb_default"})}

OptionsSet == {Prop("token", t) : t \in Opt({"", "tok_arg"})}

LimitInputs == {MinLimit - 1, MaxLimit + 1}
QueryInputs == {"", "vip"}

ToolArgsSet ==
  {Prop("inboxId", i) @@ Prop("limit", l) @@ Prop("query", q)
   @@ Prop("onlyUnresolved", o) @@ Prop("status", s) :
     i \in Opt({"inb_1"}), l \in Opt(LimitInputs), q \in Opt(QueryInputs),
     o \in Opt(BOOLEAN), s \in Opt(Statuses)}

\* the filter objects a caller passes: every combination of query, flag and
\* status, and the limits with and without a query
FilterSet ==
  {Prop("q", q) @@ Prop("onlyUnresolved", o) @@ Prop("status", s) :
     q \in Opt(QueryInputs), o \in Opt(BOOLEAN), s \in Opt(Statuses)}
  \cup {Prop("q", q) @@ Prop("limit", <<l>>) :
          q \in Opt({"vip"}), l \in LimitInputs}

ConvIds == 1..MaxPage
Conversation(c) == [id |-> "cnv_" \o ToString(c)]
Message(conversationId, j) ==
  [id |-> "msg_" \o conversationId \o "_" \o ToString(j)]

\* the pages the platform may return: the n most recent conversations,
\* the most recent first
Pages == {[i \in 1..n |-> n + 1 - i] : n \in 0..MaxPage}

HttpResponse(status, statusText, parseable, json) ==
  [kind |-> "http", status |-> status, statusText |-> statusText,
   parseable |-> parseable, json |-> json]

ConversationsOk ==
  {HttpResponse(200, "OK", TRUE,
                [_results |-> [i \in 1..Len(pg) |-> Conversation(pg[i])]]) :
     pg \in Pages}

MessagesOk(conversationId) ==
  {HttpResponse(200, "OK", TRUE,
                [_results |-> [j \in 1..k |-> Message(conversationId, j)]]) :
     k \in 0..MaxMsgs}

NotFound == HttpResponse(404, "Not Found", TRUE, <<<<"message", "not found">>>>)
BadGateway == HttpResponse(502, "Bad Gateway", FALSE, <<>>)
OkNotJson == HttpResponse(200, "OK", FALSE, <<>>)
NetworkError == [kind |-> "network", error |-> "connect ECONNREFUSED"]

FailingResponses == {NotFound, BadGateway, OkNotJson, NetworkError}
\* the failures tried on a message-list exchange
MessagesFailing == {NotFound, OkNotJson}

(***************************************************************************)
(* State machine.                                                          *)
(***************************************************************************)
NoPromise == [state |-> "none"]
\* an exchange without a response so far, and one that will never get one
NoResponse == [kind |-> "none"]
NeverResponds == [kind |-> "never"]

Init ==
  /\ env \in EnvSet
  /\ pc = "idle"
  /\ entry = "none"
  /\ args = EmptyObj
  /\ client = EmptyObj
  /\ params = EmptyObj
  /\ params0 = EmptyObj
  /\ requests = <<>>
  /\ responses = <<>>
  /\ reordered = FALSE
  /\ conversationsPromise = NoPromise
  /\ conversationsResponse = EmptyObj
  /\ messagesPromises = <<>>
  /\ promise = NoPromise
  /\ toolPromise = NoPromise

\* listInboxConversations(inboxId, p) on client c, up to its fetch
StartListInboxConversations(c, inboxId, p) ==
  /\ requests' = Append(requests, ConversationsRequest(c, inboxId, p))
  /\ responses' = Append(responses, NoResponse)
  /\ conversationsPromise' = Pending
  /\ promise' = Pending
  /\ pc' = "awaitConv"

\* listInboxMessages(inboxId, p) on client c, up to its first await
StartListInboxMessages(c, inboxId, p) ==
  /\ params0' = p
  /\ params' = ForceOpen(p)
  /\ StartListInboxConversations(c, inboxId, params')

\* the tool is invoked with arguments a
ToolCall(a) ==
  /\ pc = "idle"
  /\ entry' = "tool"
  /\ args' = a
  /\ IF ~SchemaAccepts(a)
     THEN /\ toolPromise' = Rejected(InvalidArgumentsError)
          /\ pc' = "done"
          /\ UNCHANGED <<client, params, params0, requests, responses,
                         conversationsPromise, promise>>
     ELSE IF HandlerConfigError(SchemaParse(a), env) # ""
     THEN /\ toolPromise' = Rejected(HandlerConfigError(SchemaParse(a), env))
          /\ pc' = "done"
          /\ UNCHANGED <<client, params, params0, requests, responses,
                         conversationsPromise, promise>>
     ELSE /\ client' = NewFrontClient(Prop("token", <<env.FRONT_API_TOKEN>>), env)
          /\ toolPromise' = Pending
          /\ StartListInboxMessages(client', ResolvedInboxId(SchemaParse(a), env),
                                    HandlerParams(SchemaParse(a)))
  /\ UNCHANGED <<env, reordered, conversationsResponse, messagesPromises>>

\* a caller constructs a client
Construct(options) ==
  /\ pc = "idle"
  /\ entry' = "client"
  /\ client' = NewFrontClient(options, env)
  /\ pc' = IF Has(client', "error") THEN "done" ELSE "ready"
  /\ UNCHANGED <<env, args, params, params0, requests, responses, reordered,
                 conversationsPromise, conversationsResponse, messagesPromises,
                 promise, toolPromise>>

\* the caller calls client.listInboxMessages(inboxId, p)
ListInboxMessages(inboxId, p) ==
  /\ pc = "ready"
  /\ entry' = "listInboxMessages"
  /\ StartListInboxMessages(client, inboxId, p)
  /\ UNCHANGED <<env, args, client, reordered, conversationsResponse,
                 messagesPromises, toolPromise>>

\* the caller calls client.listInboxConversations(inboxId, p)
ListInboxConversations(inboxId, p) ==
  /\ pc = "ready"
  /\ entry' = "listInboxConversations"
  /\ params0' = p
  /\ params' = p
  /\ StartListInboxConversations(client, inboxId, p)
  /\ UNCHANGED <<env, args, client, reordered, conversationsResponse,
                 messagesPromises, toolPromise>>

\* the conversation-list exchange ends with resp
ConversationsResponse(resp) ==
  /\ pc = "awaitConv"
  /\ responses[1] = NoResponse
  /\ conversationsPromise' = RequestSettle(resp)
  /\ IF entry = "listInboxConversations"
        \/ conversationsPromise'.state = "rejected"
     THEN /\ promise' = conversationsPromise'
          /\ pc' = "done"
          /\ requests' = requests
          /\ responses' = [responses EXCEPT ![1] = resp]
          /\ UNCHANGED <<conversationsResponse, messagesPromises>>
     ELSE /\ conversationsResponse' = conversationsPromise'.value
          /\ requests' =
               requests \o MessagesRequests(client, conversationsResponse'._results)
          /\ responses' =
               <<resp>> \o [i \in 1..Len(conversationsResponse'._results) |->
                              NoResponse]
          /\ messagesPromises' =
               [i \in 1..Len(conversationsResponse'._results) |-> Pending]
          /\ promise' = IF conversationsResponse'._results = <<>>
                        THEN AfterJoin(<<>>, Fulfilled(<<>>))
                        ELSE Pending
          /\ pc' = IF promise'.state = "pending" THEN "awaitAll" ELSE "done"
  /\ toolPromise' = IF entry = "tool" THEN HandlerSettle(promise') ELSE toolPromise
  /\ UNCHANGED <<env, entry, args, client, params, params0, reordered>>

\* the conversation-list exchange will never end
ConversationsStall ==
  /\ pc = "awaitConv"
  /\ responses[1] = NoResponse
  /\ responses' = [responses EXCEPT ![1] = NeverResponds]
  /\ UNCHANGED <<env, pc, entry, args, client, params, params0, requests,
                 reordered, conversationsPromise, conversationsResponse,
                 messagesPromises, promise, toolPromise>>

\* an exchange of a lower index than i is still without a response
EarlierOutstanding(i) ==
  \E j \in 1..(i - 1) : responses[1 + j].kind \in {"none", "never"}

\* the message-list exchange of the conversation at index i ends with resp
MessagesResponse(i, resp) ==
  /\ i \in 1..Len(messagesPromises)
  /\ responses[1 + i] = NoResponse
  /\ responses' = [responses EXCEPT ![1 + i] = resp]
  /\ reordered' = (reordered \/ EarlierOutstanding(i))
  /\ messagesPromises' = [messagesPromises EXCEPT ![i] = RequestSettle(resp)]
  /\ promise' = IF promise.state = "pending"
                THEN AfterJoin(conversationsResponse._results,
                               PromiseAll(messagesPromises', i))
                ELSE promise
  /\ pc' = IF promise'.state = "pending" THEN pc ELSE "done"
  /\ toolPromise' = IF entry = "tool" THEN HandlerSettle(promise') ELSE toolPromise
  /\ UNCHANGED <<env, entry, args, client, params, params0, requests,
                 conversationsPromise, conversationsResponse>>

\* the message-list exchange of the conversation at index i will never end
MessagesStall(i) ==
  /\ i \in 1..Len(messagesPromises)
  /\ responses[1 + i] = NoResponse
  /\ responses' = [responses EXCEPT ![1 + i] = NeverResponds]
  /\ UNCHANGED <<env, pc, entry, args, client, params, params0, requests,
                 reordered, conversationsPromise, conversationsResponse,
                 messagesPromises, promise, toolPromise>>

Next ==
  \/ \E a \in ToolArgsSet : ToolCall(a)
  \/ \E o \in OptionsSet : Construct(o)
  \/ \E p \in FilterSet : ListInboxMessages("inb_1", p)
  \/ \E p \in FilterSet : ListInboxConversations("inb_1", p)
  \/ \E resp \in ConversationsOk \cup FailingResponses : ConversationsResponse(resp)
  \/ ConversationsStall
  \/ \E i \in 1..Len(messagesPromises) :
       \E resp \in MessagesOk(conversationsResponse._results[i].id)
                   \cup MessagesFailing :
         MessagesResponse(i, resp)
  \/ \E i \in 1..Len(messagesPromises) : MessagesStall(i)

Spec == Init /\ [][Next]_vars

TypeOK ==
  /\ pc \in {"idle", "ready", "awaitConv", "awaitAll", "done"}
  /\ entry \in {"none", "tool", "client", "listInboxMessages",
                "listInboxConversations"}
  /\ promise.state \in {"none", "pending", "fulfilled", "rejected"}
  /\ toolPromise.state \in {"none", "pending", "fulfilled", "rejected"}
  /\ Len(responses) = Len(requests)
  /\ reordered \in BOOLEAN

(***************************************************************************)
(* Properties.                                                             *)
(***************************************************************************)
\* the invocation has reached listInboxMessages and issued its first request
InboxMessagesStarted ==
  entry \in {"listInboxMessages", "tool"} /\ requests # <<>>

\* the values of the q parameters of a request
QValues(req) ==
  {req.query[k][2] : k \in {x \in 1..Len(req.query) : req.query[x][1] = "q"}}

\* the statuses a request filters on
UsedStatuses(req) ==
  {st \in Statuses :
     \E v \in QValues(req) : Contains(v, "status:\"" \o st \o "\"")}

\* the filter as the caller gave it: the tool's arguments or the filter object
Given == IF entry = "tool" THEN args ELSE params0

SuppliedStatus(g) == IF Has(g, "status") THEN {g.status} ELSE {}

\* C1: when onlyUnresolved is true the conversation-list request of
\* listInboxMessages (and of the tool handler) filters on status "open",
\* whatever status the caller supplied; when it is false or absent the request
\* filters on exactly the supplied status (on none when none was supplied).
C1_UnresolvedForcesOpen ==
  InboxMessagesStarted =>
    UsedStatuses(requests[1]) =
      IF TruthyBool(Given, "onlyUnresolved") THEN {"open"}
      ELSE SuppliedStatus(Given)

C1_Witness ==
  /\ entry = "listInboxMessages"
  /\ TruthyBool(params0, "onlyUnresolved")
  /\ Has(params0, "status") /\ params0.status = "archived"
  /\ UsedStatuses(requests[1]) = {"open"}

\* the number of places where sub occurs in s
Occurrences(s, sub) ==
  Cardinality({i \in 1..(Len(s) - Len(sub) + 1) :
                 SubSeq(s, i, i + Len(sub) - 1) = sub})

\* C2: the query string of a listInboxConversations request carries at most
\* one q parameter and no status parameter; with a (non-empty) query and a
\* status q is '<query> AND status:"<status>"', with a status only it is
\* 'status:"<status>"', with a query only it is the query, with neither there
\* is no q parameter.
C2_StatusFoldedIntoQ ==
  requests # <<>> =>
    LET req == requests[1]
        names == {req.query[k][1] : k \in 1..Len(req.query)}
        qCount == Cardinality({k \in 1..Len(req.query) : req.query[k][1] = "q"})
    IN /\ qCount <= 1
       /\ "status" \notin names
       /\ Occurrences(req.url, "?q=") + Occurrences(req.url, "&q=") = qCount
       /\ ~Contains(req.url, "status=")
       /\ QValues(req) =
            IF TruthyStr(params, "q") /\ Has(params, "status")
            THEN {params.q \o " AND status:\"" \o params.status \o "\""}
            ELSE IF Has(params, "status")
            THEN {"status:\"" \o params.status \o "\""}
            ELSE IF TruthyStr(params, "q") THEN {params.q}
            ELSE {}

C2_Witness ==
  /\ entry = "listInboxConversations"
  /\ TruthyStr(params, "q") /\ Has(params, "status")
  /\ requests # <<>>
  /\ QValues(requests[1]) = {"vip AND status:\"spam\""}
  /\ Contains(requests[1].url, "?q=vip+AND+status%3A%22spam%22")

\* the messages the platform returned for the conversation at index i
MessagesOf(i) == responses[1 + i].json._results

\* the number of messages returned for the conversations before index i
RECURSIVE Offset(_)
Offset(i) == IF i <= 1 THEN 0 ELSE Offset(i - 1) + Len(MessagesOf(i - 1))

OccurredErrors ==
  (IF conversationsPromise.state = "rejected"
   THEN {conversationsPromise.error} ELSE {})
  \cup {messagesPromises[i].error :
          i \in {j \in 1..Len(messagesPromises) :
                   messagesPromises[j].state = "rejected"}}

\* C4: listInboxMessages is all-or-nothing: once the conversation-list call
\* or one message-list call has failed, the call has failed with one of the
\* errors that occurred and carries no conversations and no messages; it has
\* a result only when the conversation-list call and every message-list call
\* succeeded.  The tool handler fails and succeeds with it.
C4_AllOrNothing ==
  InboxMessagesStarted =>
    /\ OccurredErrors # {} =>
         /\ promise.state = "rejected"
         /\ promise.error \in OccurredErrors
         /\ ~Has(promise, "value")
    /\ promise.state = "fulfilled" =>
         /\ conversationsPromise.state = "fulfilled"
         /\ Len(messagesPromises) = Len(conversationsPromise.value._results)
         /\ \A i \in 1..Len(messagesPromises) :
              messagesPromises[i].state = "fulfilled"
    /\ entry = "tool" =>
         /\ toolPromise.state = promise.state
         /\ promise.state = "rejected" =>
              /\ Contains(toolPromise.error, promise.error)
              /\ ~Has(toolPromise, "value")

C4_Witness ==
  /\ entry = "listInboxMessages"
  /\ Len(messagesPromises) = 2
  /\ messagesPromises[1].state = "fulfilled"
  /\ messagesPromises[2].state = "rejected"
  /\ promise.state = "rejected"
  /\ promise.error = messagesPromises[2].error

ClientEntry == entry \in {"listInboxMessages", "listInboxConversations"}

LimitOutOfRange(g) == Has(g, "limit") /\ (g.limit < 1 \/ g.limit > 100)

\* the values of the limit parameters of a request
LimitValues(req) ==
  {req.query[k][2] :
     k \in {x \in 1..Len(req.query) : req.query[x][1] = "limit"}}

\* C5 as stated: whenever an operation was invoked with a limit below 1 or
\* above 100, no HTTP request was sent and the invocation has failed.
C5_Original ==
  ((entry = "tool" \/ ClientEntry) /\ LimitOutOfRange(Given)) =>
    /\ requests = <<>>
    /\ IF entry = "tool" THEN toolPromise.state = "rejected"
       ELSE promise.state = "rejected"

\* C5: a limit below 1 or above 100 is rejected by the schema of the tool
\* before the handler runs: no client is created, no HTTP request is sent and
\* the invocation fails.  The client operations do not check the limit: they
\* send the conversation-list request, with the limit as given, or without a
\* limit parameter when it is 0.
C5_SchemaRejectsLimit ==
  /\ (entry = "tool" /\ LimitOutOfRange(args)) =>
       /\ requests = <<>>
       /\ client = EmptyObj
       /\ toolPromise.state = "rejected"
       /\ pc = "done"
  /\ (entry = "tool" /\ requests # <<>>) =>
       \E l \in 1..100 : LimitValues(requests[1]) = {ToString(l)}
  /\ (ClientEntry /\ Has(params0, "limit")) =>
       /\ requests # <<>>
       /\ LimitValues(requests[1]) =
            IF params0.limit = 0 THEN {} ELSE {ToString(params0.limit)}

C5_Witness ==
  /\ entry = "tool"
  /\ Has(args, "limit") /\ args.limit = 101
  /\ TruthyStr(env, "FRONT_API_TOKEN") /\ TruthyStr(args, "inboxId")
  /\ toolPromise.state = "rejected"
  /\ requests = <<>>

NoTokenFor(options) ==
  ~TruthyStr(options, "token") /\ ~TruthyStr(env, "FRONT_API_TOKEN")

ToolConfigMissing ==
  \/ ~TruthyStr(env, "FRONT_API_TOKEN")
  \/ ~TruthyStr(args, "inboxId") /\ ~TruthyStr(env, "DEFAULT_INBOX_ID")

\* C6: a configuration error is detected before any network call: a tool
\* invocation without an environment token, or without an inbox identifier
\* and without a default inbox, has failed with no HTTP request sent;
\* constructing a client without an explicit non-empty token and without an
\* environment token fails, and no request is ever sent after it.
C6_ConfigErrorBeforeNetwork ==
  /\ []((entry = "tool" /\ ToolConfigMissing) =>
          (requests = <<>> /\ toolPromise.state = "rejected" /\ pc = "done"))
  /\ [][\A o \in OptionsSet :
          (Construct(o) /\ NoTokenFor(o)) =>
            (Has(client', "error") /\ pc' = "done" /\ requests' = <<>>)]_vars
  /\ [](Has(client, "error") => (requests = <<>> /\ pc = "done"))

C6_Witness ==
  /\ entry = "tool"
  /\ TruthyStr(env, "FRONT_API_TOKEN")
  /\ ~Has(args, "inboxId") /\ ~Has(env, "DEFAULT_INBOX_ID")
  /\ ~LimitOutOfRange(args)
  /\ toolPromise = Rejected(InboxRequiredError)
  /\ requests = <<>>

\* the promise of the exchange at index k of requests
ExchangePromise(k) ==
  IF k = 1 THEN conversationsPromise ELSE messagesPromises[k - 1]

\* the description of a failure embeds the status, the status text and the
\* serialised body of the response r
EmbedsResponse(e, r) ==
  /\ Contains(e, ToString(r.status))
  /\ Contains(e, r.statusText)
  /\ IF r.parseable
     THEN \A k \in 1..Len(r.json) :
            Contains(e, "\"" \o r.json[k][1] \o "\":\"" \o r.json[k][2] \o "\"")
     ELSE SubSeq(e, Len(e) - 4, Len(e)) = " - {}"

NonSuccessFails(k) ==
  LET r == responses[k]
      pr == ExchangePromise(k)
  IN (r.kind = "http" /\ r.status \notin 200..299) =>
       /\ pr.state = "rejected"
       /\ ~Has(pr, "value")
       /\ EmbedsResponse(pr.error, r)
       /\ r = NotFound =>
            /\ Contains(pr.error, "404")
            /\ Contains(pr.error, "Not Found")
            /\ Contains(pr.error, "not found")

\* C7 as stated: a non-success status yields a failure that embeds the
\* status, the status text and the serialised body ({} when it is not JSON);
\* a success status yields the parsed body and no failure.
C7_Original ==
  \A k \in 1..Len(responses) :
    /\ NonSuccessFails(k)
    /\ (responses[k].kind = "http" /\ responses[k].status \in 200..299) =>
         ExchangePromise(k).state = "fulfilled"

\* C7: a non-success status yields a failure that embeds the status, the
\* status text and the serialised body ({} when it is not JSON); a success
\* status yields the parsed body when the body is JSON, and a failure that
\* does not describe the response when it is not.
C7_RequestSettles ==
  \A k \in 1..Len(responses) :
    /\ NonSuccessFails(k)
    /\ (responses[k].kind = "http" /\ responses[k].status \in 200..299) =>
         IF responses[k].parseable
         THEN ExchangePromise(k) = Fulfilled(responses[k].json)
         ELSE /\ ExchangePromise(k).state = "rejected"
              /\ ~Contains(ExchangePromise(k).error, ToString(responses[k].status))

C7_Witness ==
  /\ requests # <<>>
  /\ responses[1] = NotFound
  /\ conversationsPromise.state = "rejected"
  /\ Contains(conversationsPromise.error,
              "404 Not Found - {\"message\":\"not found\"}")

\* C8: an execution of listInboxMessages issues exactly one conversation-list
\* request, and it is the first request; no message-list request is issued
\* unless that request has succeeded; once it has succeeded with the page
\* [C1..Cn] exactly the n message-list requests of C1..Cn are issued.
C8_OneRequestPerConversation ==
  InboxMessagesStarted =>
    /\ {k \in 1..Len(requests) : requests[k].kind = "conversations"} = {1}
    /\ conversationsPromise.state # "fulfilled" => Len(requests) = 1
    /\ conversationsPromise.state = "fulfilled" =>
         LET page == responses[1].json._results IN
         /\ Len(requests) = 1 + Len(page)
         /\ \A i \in 1..Len(page) :
              /\ requests[1 + i].kind = "messages"
              /\ requests[1 + i].method = "GET"
              /\ requests[1 + i].path =
                   "/conversations/" \o page[i].id \o "/messages"

C8_Witness ==
  /\ entry = "listInboxMessages"
  /\ conversationsPromise.state = "fulfilled"
  /\ Len(conversationsPromise.value._results) = 2
  /\ Len(requests) = 3
  /\ requests[2].path = "/conversations/cnv_2/messages"
  /\ requests[3].path = "/conversations/cnv_1/messages"

\* a message-list request of the fan-out never receives a response
SomeMessagesNever ==
  \E i \in 1..Len(messagesPromises) : responses[1 + i] = NeverResponds

RejectedMessages ==
  {i \in 1..Len(messagesPromises) : messagesPromises[i].state = "rejected"}

\* C9 as stated: while one of the message-list requests never receives a
\* response, the call has neither returned nor failed.
C9_Original == SomeMessagesNever => promise.state = "pending"

\* C9: while one of the message-list requests never receives a response the
\* call has not returned a result; it has failed exactly when a sibling
\* request has failed, with the error of such a sibling, and is pending
\* otherwise.
C9_HungRequestNeverReturns ==
  SomeMessagesNever =>
    /\ promise.state # "fulfilled"
    /\ promise.state = IF RejectedMessages = {} THEN "pending" ELSE "rejected"
    /\ promise.state = "rejected" =>
         \E j \in RejectedMessages : promise.error = messagesPromises[j].error
    /\ entry = "tool" => toolPromise.state = promise.state

C9_Witness ==
  /\ entry = "listInboxMessages"
  /\ Len(messagesPromises) = 2
  /\ responses[2] = NeverResponds
  /\ messagesPromises[2].state = "rejected"
  /\ promise.state = "rejected"

\* the filter object changed from before only by a status of "open"
OnlyStatusForced(before, after) ==
  /\ DOMAIN after = DOMAIN before \cup {"status"}
  /\ after.status = "open"
  /\ \A k \in DOMAIN before \ {"status"} : after[k] = before[k]

\* C10: listInboxMessages changes the caller's filter object only by setting
\* status to "open" when onlyUnresolved is true, and leaves it unchanged
\* otherwise; the object stays that way until and after the call ends;
\* listInboxConversations does not change its filter object; the token and
\* the base URL of a client never change.
C10_Frame ==
  /\ [](entry = "listInboxMessages" =>
          IF Has(params0, "onlyUnresolved") /\ params0.onlyUnresolved = TRUE
          THEN OnlyStatusForced(params0, params)
          ELSE params = params0)
  /\ [](entry = "listInboxConversations" => params = params0)
  /\ [][pc \notin {"idle", "ready"} => params' = params]_vars
  /\ [][(Has(client, "token") \/ Has(client, "error")) => client' = client]_vars

C10_Witness ==
  /\ entry = "listInboxMessages"
  /\ pc = "done"
  /\ promise.state = "rejected"
  /\ params0 = [onlyUnresolved |-> TRUE, status |-> "deleted", q |-> "vip"]
  /\ params = [onlyUnresolved |-> TRUE, status |-> "open", q |-> "vip"]

====
